---- MODULE Spec2Model ----
(***************************************************************************)
(* The transfer approval workflow of the stablecoin banking API: the       *)
(* database-backed transfer routes (initiate, approve, the settlement      *)
(* timer), over the tables of the schema.                                  *)
(*                                                                         *)
(* Amounts are in cents.  A transfer id sent by a client is a piece of     *)
(* text; it is modelled by its spelling and the number it spells:          *)
(*   "prefixed"  transfer_5   (the id the API returns)                     *)
(*   "plain"     5                                                         *)
(* The approve handler is an async function with one await between the     *)
(* duplicate-approval lookup and the role lookup; the part before the      *)
(* await and the part after it are two steps, and nothing (no transaction, *)
(* no lock, no unique constraint) ties them together: other handlers and   *)
(* settlement callbacks on the same database may run in between.           *)
(*                                                                         *)
(* The specifications share the actions:                                   *)
(*   Spec      the sample bank and a registered bank, transfers only       *)
(*   RuleSpec  a registered bank whose approval rules are created,         *)
(*             updated and deleted while transfers run                     *)
(*   UserSpec  a registered bank whose users are updated and deactivated   *)
(*             while transfers run                                         *)
(*   DecimalSpec  a registered bank, amounts in half cents                 *)
(*   RoleSpec  a registered bank whose users are created and given other   *)
(*             roles while transfers run                                   *)
(*   LevelSpec a registered bank whose Medium rule and Operator are        *)
(*             updated while the Operator approves                         *)
(*   ApiSpec   the transfer routes behind the API-key middleware, with     *)
(*             the status and pending queries                              *)
(*   DeadlineSpec  the sample bank with the clock running past the         *)
(*             approval deadlines                                          *)
(*   FrameSpec a registered bank whose approver is deactivated or demoted  *)
(*             between two approvals                                       *)
(* The clock stands still in every specification but DeadlineSpec.         *)
(***************************************************************************)
EXTENDS Integers, Sequences, FiniteSets, Bags, TLC

\* ------------------------------------------------------------ bounds
MaxTransfers == 1
MaxCalls == 2
MaxTime == 3

\* the two windows added to Date.now() at initiation, in ticks
ApprovalWindow == 2
AutoWindow == 1

\* ------------------------------------------------------------ inputs
Banks == {1, 2}
UserIds == {"u1", "u2", "u3", "u4", "u5"}
Initiators == {"u1", "u4"}
Amounts == {500000, 2500000, 30000000}
IdSpellings == {"prefixed", "plain"}
TransferIds == [sp : IdSpellings, n : 1..MaxTransfers]

NoRow == [none |-> TRUE]

VARIABLES
    bank_users,           \* table bank_users: user_id -> row
    roles,                \* table roles: set of rows
    approval_rules,       \* table approval_rules: set of rows
    transaction_records,  \* table transaction_records: sequence, index = transaction_id
    transfer_approvals,   \* table transfer_approvals: sequence, index = id
    timers,               \* pending settlement callbacks per transaction_id
    inflight,             \* approve handlers suspended at their await (a bag)
    transitions,          \* per transaction_id: threshold transitions performed by approve
    last,                 \* the last handler event: the response sent, or "Suspended"
                          \* when the handler reached its await
    now,                  \* Date.now(), in ticks
    approval_deadline     \* column approval_deadline of transaction_records, by
                          \* transaction_id

vars == <<bank_users, roles, approval_rules, transaction_records,
          transfer_approvals, timers, inflight, transitions, last,
          now, approval_deadline>>

time == <<now, approval_deadline>>

tables == <<bank_users, roles, approval_rules, transaction_records, transfer_approvals>>

\* ------------------------------------------------------------ tables after setup
\* roles: the four roles every bank gets (sample data and registration agree)
DefaultRoleLevels == [Viewer |-> 1, Operator |-> 5, Manager |-> 7, Admin |-> 10]

SampleRoles ==
    { [bank_id |-> b, role_name |-> r, role_level |-> DefaultRoleLevels[r]]
        : b \in Banks, r \in DOMAIN DefaultRoleLevels }

NullAmount == -1

\* bank 1 is the sample bank of the schema, with the schema's sample rules
SampleRules ==
    { [id |-> 1, bank_id |-> 1, min_amount |-> 1, max_amount |-> 1000000,
       required_role_level |-> 5, required_approvals |-> 1, auto_approve |-> TRUE],
      [id |-> 2, bank_id |-> 1, min_amount |-> 1000001, max_amount |-> 10000000,
       required_role_level |-> 7, required_approvals |-> 1, auto_approve |-> FALSE],
      [id |-> 3, bank_id |-> 1, min_amount |-> 10000001, max_amount |-> 100000000,
       required_role_level |-> 10, required_approvals |-> 2, auto_approve |-> FALSE] }

\* bank 2 is a registered bank, with the rules registration creates
defaultRules ==
    { [id |-> 4, bank_id |-> 2, min_amount |-> 0, max_amount |-> 999999,
       required_role_level |-> 1, required_approvals |-> 0, auto_approve |-> TRUE],
      [id |-> 5, bank_id |-> 2, min_amount |-> 1000000, max_amount |-> 4999999,
       required_role_level |-> 2, required_approvals |-> 1, auto_approve |-> FALSE],
      [id |-> 6, bank_id |-> 2, min_amount |-> 5000000, max_amount |-> 24999999,
       required_role_level |-> 3, required_approvals |-> 1, auto_approve |-> FALSE],
      [id |-> 7, bank_id |-> 2, min_amount |-> 25000000, max_amount |-> NullAmount,
       required_role_level |-> 4, required_approvals |-> 2, auto_approve |-> FALSE] }

\* users created through /users/create, one of them deactivated since
InitialUsers ==
    [u \in UserIds |->
        CASE u = "u1" -> [bank_id |-> 1, role |-> "Admin",    status |-> "active"]
          [] u = "u2" -> [bank_id |-> 1, role |-> "Admin",    status |-> "active"]
          [] u = "u3" -> [bank_id |-> 1, role |-> "Operator", status |-> "active"]
          [] u = "u4" -> [bank_id |-> 1, role |-> "Manager",  status |-> "inactive"]
          [] u = "u5" -> [bank_id |-> 2, role |-> "Admin",    status |-> "active"]]

\* ------------------------------------------------------------ helpers
\* DefaultRule asking for the Operator's level
DefaultRule_level5 ==
    [id |-> 0, bank_id |-> 0, min_amount |-> 0, max_amount |-> NullAmount,
     required_role_level |-> 5, required_approvals |-> 0, auto_approve |-> TRUE]

\* The synthetic rule returned when no row matches
DefaultRule ==
    [id |-> 0, bank_id |-> 0, min_amount |-> 0, max_amount |-> NullAmount,
     required_role_level |-> 1, required_approvals |-> 0, auto_approve |-> TRUE]

\* MatchingRules with the upper bound exclusive
MatchingRules_exclusiveMax(bankId, amount) ==
    { r \in approval_rules :
        /\ r.bank_id = bankId
        /\ r.min_amount <= amount
        /\ (r.max_amount = NullAmount \/ r.max_amount > amount) }

\* WHERE bank_id = ? AND min_amount <= ? AND (max_amount IS NULL OR max_amount >= ?)
MatchingRules(bankId, amount) ==
    { r \in approval_rules :
        /\ r.bank_id = bankId
        /\ r.min_amount <= amount
        /\ (r.max_amount = NullAmount \/ r.max_amount >= amount) }

\* ORDER BY min_amount DESC LIMIT 1 leaves the choice among rows with the same
\* min_amount to the database: the result is any one of them.
getApprovalRequirements(bankId, amount) ==
    LET m == MatchingRules(bankId, amount) IN
    IF m = {} THEN {DefaultRule}
    ELSE { r \in m : \A q \in m : q.min_amount <= r.min_amount }

\* SELECT * FROM bank_users WHERE user_id = ? AND bank_id = ?
UserOfBank(userId, bankId) ==
    IF userId \in DOMAIN bank_users /\ bank_users[userId].bank_id = bankId
    THEN bank_users[userId] ELSE NoRow

\* SELECT role_level FROM roles WHERE bank_id = ? AND role_name = ?
RoleOfBank(bankId, roleName) ==
    LET rs == { r \in roles : r.bank_id = bankId /\ r.role_name = roleName } IN
    IF rs = {} THEN NoRow ELSE CHOOSE r \in rs : TRUE

\* transferId.replace('transfer_', '')
numericId(transferId) ==
    IF transferId.sp = "prefixed" THEN [sp |-> "plain", n |-> transferId.n]
    ELSE transferId

\* The integer a text value converts to when it is compared with, or must
\* reference, an INTEGER key; 0 when the text is no numeral.
IntegerAffinity(text) ==
    IF text.sp = "prefixed" THEN 0 ELSE text.n

\* SELECT * FROM transaction_records WHERE transaction_id = ?
TransferRow(text) ==
    LET k == IntegerAffinity(text) IN
    IF k \in 1..Len(transaction_records) THEN transaction_records[k] ELSE NoRow

\* SELECT * FROM transfer_approvals WHERE transfer_id = ? AND approver_user_id = ?
\* (transfer_id is a TEXT column: texts are compared as texts)
existingApproval(transferId, approver) ==
    \E i \in 1..Len(transfer_approvals) :
        /\ transfer_approvals[i].transfer_id = transferId
        /\ transfer_approvals[i].approver_user_id = approver

\* FOREIGN KEY (transfer_id) REFERENCES transaction_records(transaction_id),
\* FOREIGN KEY (approver_user_id) REFERENCES bank_users(user_id); foreign_keys = ON
ForeignKeysHold(transferId, approver) ==
    /\ IntegerAffinity(transferId) \in 1..Len(transaction_records)
    /\ approver \in DOMAIN bank_users

Response(op, kind) == [op |-> op, kind |-> kind]

\* new Date(Date.now() + 24 * 60 * 60 * 1000), or Date.now() + 30000 when the
\* rule auto-approves; in ticks
estimatedCompletion(approval_status) ==
    IF approval_status = "auto_approved" THEN now + AutoWindow ELSE now + ApprovalWindow

\* ------------------------------------------------------------ Init
Init ==
    /\ bank_users = InitialUsers
    /\ roles = SampleRoles
    /\ approval_rules = SampleRules \cup defaultRules
    /\ transaction_records = << >>
    /\ transfer_approvals = << >>
    /\ timers = [t \in 1..MaxTransfers |-> 0]
    /\ inflight = EmptyBag
    /\ transitions = [t \in 1..MaxTransfers |-> 0]
    /\ last = Response("none", "none")
    /\ now = 0
    /\ approval_deadline = << >>

\* ------------------------------------------------------------ POST /initiate
\* Initiate without the test of the user's status
Initiate_noStatusCheck(bank, initiated_by, amount) ==
    /\ Len(transaction_records) < MaxTransfers
    /\ LET user == UserOfBank(initiated_by, bank) IN
       IF user = NoRow
       THEN /\ last' = Response("initiate", "UnauthorizedInitiator")
            /\ UNCHANGED <<tables, timers, inflight, transitions, time>>
       ELSE \E approvalRule \in getApprovalRequirements(bank, amount) :
            LET approval_status == IF approvalRule.auto_approve THEN "auto_approved"
                                   ELSE "pending_approval"
                id == Len(transaction_records) + 1
                row == [amount |-> amount,
                        status |-> IF approval_status = "auto_approved" THEN "processing"
                                   ELSE "pending_approval",
                        initiated_by |-> initiated_by,
                        approval_status |-> approval_status,
                        required_approvals |-> approvalRule.required_approvals,
                        current_approvals |-> 0]
            IN /\ transaction_records' = Append(transaction_records, row)
               /\ timers' = IF approval_status = "auto_approved"
                            THEN [timers EXCEPT ![id] = @ + 1] ELSE timers
               /\ last' = Response("initiate", "Created")
               /\ UNCHANGED <<bank_users, roles, approval_rules, transfer_approvals,
                              inflight, transitions, now>>
               /\ approval_deadline' = Append(approval_deadline, estimatedCompletion(approval_status))

Initiate(bank, initiated_by, amount) ==
    /\ Len(transaction_records) < MaxTransfers
    /\ LET user == UserOfBank(initiated_by, bank) IN
       IF user = NoRow \/ user.status # "active"
       THEN /\ last' = Response("initiate", "UnauthorizedInitiator")
            /\ UNCHANGED <<tables, timers, inflight, transitions, time>>
       ELSE \E approvalRule \in getApprovalRequirements(bank, amount) :
            LET approval_status == IF approvalRule.auto_approve THEN "auto_approved"
                                   ELSE "pending_approval"
                id == Len(transaction_records) + 1
                row == [amount |-> amount,
                        status |-> IF approval_status = "auto_approved" THEN "processing"
                                   ELSE "pending_approval",
                        initiated_by |-> initiated_by,
                        approval_status |-> approval_status,
                        required_approvals |-> approvalRule.required_approvals,
                        current_approvals |-> 0]
            IN /\ transaction_records' = Append(transaction_records, row)
               /\ timers' = IF approval_status = "auto_approved"
                            THEN [timers EXCEPT ![id] = @ + 1] ELSE timers
               /\ last' = Response("initiate", "Created")
               /\ UNCHANGED <<bank_users, roles, approval_rules, transfer_approvals,
                              inflight, transitions, now>>
               /\ approval_deadline' = Append(approval_deadline, estimatedCompletion(approval_status))

\* ------------------------------------------------------------ POST /:transferId/approve
\* approveChecks without its auto-approved return
approveChecks_noAutoCheck(bank, transferId, approver_user_id) ==
    LET approver == UserOfBank(approver_user_id, bank)
        transfer == TransferRow(numericId(transferId))
    IN
    IF approver = NoRow \/ approver.status # "active" THEN "InvalidApprover"
    ELSE IF transfer = NoRow THEN "TransferNotFound"
    ELSE IF transfer.status = "completed" THEN "AlreadyCompleted"
    ELSE IF existingApproval(transferId, approver_user_id) THEN "DuplicateApproval"
    ELSE "Suspended"

\* approveChecks with the duplicate lookup moved before the status checks
approveChecks_duplicateFirst(bank, transferId, approver_user_id) ==
    LET approver == UserOfBank(approver_user_id, bank)
        transfer == TransferRow(numericId(transferId))
    IN
    IF approver = NoRow \/ approver.status # "active" THEN "InvalidApprover"
    ELSE IF transfer = NoRow THEN "TransferNotFound"
    ELSE IF existingApproval(transferId, approver_user_id) THEN "DuplicateApproval"
    ELSE IF transfer.status = "completed" THEN "AlreadyCompleted"
    ELSE IF transfer.approval_status = "auto_approved" THEN "NoApprovalNeeded"
    ELSE "Suspended"

\* approveChecks refusing a transfer whose approval_deadline has passed
approveChecks_deadline(bank, transferId, approver_user_id) ==
    LET approver == UserOfBank(approver_user_id, bank)
        transfer == TransferRow(numericId(transferId))
    IN
    IF approver = NoRow \/ approver.status # "active" THEN "InvalidApprover"
    ELSE IF transfer = NoRow THEN "TransferNotFound"
    ELSE IF transfer.status = "completed" THEN "AlreadyCompleted"
    ELSE IF transfer.approval_status = "auto_approved" THEN "NoApprovalNeeded"
    ELSE IF now > approval_deadline[IntegerAffinity(numericId(transferId))]
         THEN "DeadlinePassed"
    ELSE IF existingApproval(transferId, approver_user_id) THEN "DuplicateApproval"
    ELSE "Suspended"

\* approveChecks refusing the user who initiated the transfer
approveChecks_notInitiator(bank, transferId, approver_user_id) ==
    LET approver == UserOfBank(approver_user_id, bank)
        transfer == TransferRow(numericId(transferId))
    IN
    IF approver = NoRow \/ approver.status # "active" THEN "InvalidApprover"
    ELSE IF transfer = NoRow THEN "TransferNotFound"
    ELSE IF transfer.initiated_by = approver_user_id THEN "InvalidApprover"
    ELSE IF transfer.status = "completed" THEN "AlreadyCompleted"
    ELSE IF transfer.approval_status = "auto_approved" THEN "NoApprovalNeeded"
    ELSE IF existingApproval(transferId, approver_user_id) THEN "DuplicateApproval"
    ELSE "Suspended"

\* The early returns of the handler before its await, in the order of the code:
\* the kind of the first one taken, "Suspended" when none is.
approveChecks(bank, transferId, approver_user_id) ==
    LET approver == UserOfBank(approver_user_id, bank)
        transfer == TransferRow(numericId(transferId))
    IN
    IF approver = NoRow \/ approver.status # "active" THEN "InvalidApprover"
    ELSE IF transfer = NoRow THEN "TransferNotFound"
    ELSE IF transfer.status = "completed" THEN "AlreadyCompleted"
    ELSE IF transfer.approval_status = "auto_approved" THEN "NoApprovalNeeded"
    ELSE IF existingApproval(transferId, approver_user_id) THEN "DuplicateApproval"
    ELSE "Suspended"

\* ApproveBegin taking the required level from the rules as they were at setup
ApproveBegin_initialRules(bank, transferId, approver_user_id) ==
    LET kind == approveChecks(bank, transferId, approver_user_id)
        approver == UserOfBank(approver_user_id, bank)
        transfer == TransferRow(numericId(transferId))
    IN
    /\ last' = Response("approve", kind)
    /\ IF kind # "Suspended"
       THEN UNCHANGED <<tables, timers, inflight, transitions, time>>
       ELSE /\ BagCardinality(inflight) + Len(transfer_approvals) < MaxCalls
            /\ \E approvalRule \in
                    { r \in SampleRules \cup defaultRules :
                        /\ r.bank_id = bank
                        /\ r.min_amount <= transfer.amount
                        /\ (r.max_amount = NullAmount \/ r.max_amount >= transfer.amount) } :
                 inflight' = inflight (+) SetToBag({
                   [bank |-> bank, transferId |-> transferId,
                    approver_user_id |-> approver_user_id,
                    role |-> approver.role,
                    current_approvals |-> transfer.current_approvals,
                    required_approvals |-> transfer.required_approvals,
                    required_role_level |-> approvalRule.required_role_level] })
            /\ UNCHANGED <<tables, timers, transitions, time>>

\* ApproveBegin judging the approver by the role the user was created with
ApproveBegin_cachedRole(bank, transferId, approver_user_id) ==
    LET kind == approveChecks(bank, transferId, approver_user_id)
        approver == UserOfBank(approver_user_id, bank)
        transfer == TransferRow(numericId(transferId))
    IN
    /\ last' = Response("approve", kind)
    /\ IF kind # "Suspended"
       THEN UNCHANGED <<tables, timers, inflight, transitions, time>>
       ELSE /\ BagCardinality(inflight) + Len(transfer_approvals) < MaxCalls
            /\ \E approvalRule \in getApprovalRequirements(bank, transfer.amount) :
                 inflight' = inflight (+) SetToBag({
                   [bank |-> bank, transferId |-> transferId,
                    approver_user_id |-> approver_user_id,
                    role |-> InitialUsers[approver_user_id].role,
                    current_approvals |-> transfer.current_approvals,
                    required_approvals |-> transfer.required_approvals,
                    required_role_level |-> approvalRule.required_role_level] })
            /\ UNCHANGED <<tables, timers, transitions, time>>

\* The handler up to its await: the approver, the transfer, the status checks,
\* the duplicate lookup, and the rule resolution whose result is awaited.
ApproveBegin(bank, transferId, approver_user_id) ==
    LET kind == approveChecks(bank, transferId, approver_user_id)
        approver == UserOfBank(approver_user_id, bank)
        transfer == TransferRow(numericId(transferId))
    IN
    /\ last' = Response("approve", kind)
    /\ IF kind # "Suspended"
       THEN UNCHANGED <<tables, timers, inflight, transitions, time>>
       ELSE /\ BagCardinality(inflight) + Len(transfer_approvals) < MaxCalls
            /\ \E approvalRule \in getApprovalRequirements(bank, transfer.amount) :
                 inflight' = inflight (+) SetToBag({
                   [bank |-> bank, transferId |-> transferId,
                    approver_user_id |-> approver_user_id,
                    role |-> approver.role,
                    current_approvals |-> transfer.current_approvals,
                    required_approvals |-> transfer.required_approvals,
                    required_role_level |-> approvalRule.required_role_level] })
            /\ UNCHANGED <<tables, timers, transitions, time>>

\* The role check after the await
roleCheck(h) ==
    LET approverRole == RoleOfBank(h.bank, h.role) IN
    IF approverRole = NoRow \/ approverRole.role_level < h.required_role_level
    THEN "InsufficientRoleLevel" ELSE "Passed"

\* The body of the 403 answered by the role check: required_level and
\* approver_level (approverRole?.role_level, absent when the role is no role
\* of the bank)
insufficientRoleLevel(h) ==
    LET approverRole == RoleOfBank(h.bank, h.role) IN
    [error |-> "InsufficientRoleLevel",
     required_level |-> h.required_role_level,
     approver_level |-> IF approverRole = NoRow THEN NoRow
                        ELSE [level |-> approverRole.role_level]]

\* ApproveFinish with the insert placed before the role check
ApproveFinish_insertFirst(h) ==
    /\ BagIn(h, inflight)
    /\ inflight' = inflight (-) SetToBag({h})
    /\ LET k == IntegerAffinity(numericId(h.transferId))
           newApprovalCount == h.current_approvals + 1
       IN
       IF ~ForeignKeysHold(h.transferId, h.approver_user_id)
       THEN /\ last' = Response("approve", "InternalError")
            /\ UNCHANGED <<tables, timers, transitions, time>>
       ELSE /\ transfer_approvals' = Append(transfer_approvals,
                   [transfer_id |-> h.transferId, approver_user_id |-> h.approver_user_id])
            /\ IF roleCheck(h) # "Passed"
               THEN /\ last' = Response("approve", roleCheck(h))
                    /\ UNCHANGED <<transaction_records, timers, transitions>>
               ELSE /\ last' = Response("approve", "Approved")
                    /\ IF newApprovalCount >= h.required_approvals
                       THEN /\ transaction_records' =
                                  [transaction_records EXCEPT
                                      ![k].current_approvals = newApprovalCount,
                                      ![k].status = "processing",
                                      ![k].approval_status = "approved"]
                            /\ timers' = [timers EXCEPT ![k] = @ + 1]
                            /\ transitions' = [transitions EXCEPT ![k] = @ + 1]
                       ELSE /\ transaction_records' =
                                  [transaction_records EXCEPT ![k].current_approvals = newApprovalCount]
                            /\ UNCHANGED <<timers, transitions>>
            /\ UNCHANGED <<bank_users, roles, approval_rules, time>>

\* ApproveFinish with the threshold test on the live rule's required_approvals
ApproveFinish_liveRule(h) ==
    /\ BagIn(h, inflight)
    /\ inflight' = inflight (-) SetToBag({h})
    /\ LET k == IntegerAffinity(numericId(h.transferId))
           newApprovalCount == h.current_approvals + 1
       IN
       IF roleCheck(h) # "Passed"
       THEN /\ last' = Response("approve", roleCheck(h))
            /\ UNCHANGED <<tables, timers, transitions, time>>
       ELSE IF ~ForeignKeysHold(h.transferId, h.approver_user_id)
       THEN /\ last' = Response("approve", "InternalError")
            /\ UNCHANGED <<tables, timers, transitions, time>>
       ELSE /\ transfer_approvals' = Append(transfer_approvals,
                   [transfer_id |-> h.transferId, approver_user_id |-> h.approver_user_id])
            /\ \E rule \in getApprovalRequirements(h.bank, transaction_records[k].amount) :
               IF newApprovalCount >= rule.required_approvals
               THEN /\ transaction_records' =
                          [transaction_records EXCEPT
                              ![k].current_approvals = newApprovalCount,
                              ![k].status = "processing",
                              ![k].approval_status = "approved"]
                    /\ timers' = [timers EXCEPT ![k] = @ + 1]
                    /\ transitions' = [transitions EXCEPT ![k] = @ + 1]
               ELSE /\ transaction_records' =
                          [transaction_records EXCEPT ![k].current_approvals = newApprovalCount]
                    /\ UNCHANGED <<timers, transitions>>
            /\ last' = Response("approve", "Approved")
            /\ UNCHANGED <<bank_users, roles, approval_rules, time>>

\* The handler after its await: the role check, the insert, the counter
\* update, the threshold test with its status update and timer.
ApproveFinish(h) ==
    /\ BagIn(h, inflight)
    /\ inflight' = inflight (-) SetToBag({h})
    /\ LET k == IntegerAffinity(numericId(h.transferId))
           newApprovalCount == h.current_approvals + 1
       IN
       IF roleCheck(h) # "Passed"
       THEN /\ last' = Response("approve", roleCheck(h))
            /\ UNCHANGED <<tables, timers, transitions, time>>
       ELSE IF ~ForeignKeysHold(h.transferId, h.approver_user_id)
       THEN \* the insert throws; the handler's catch answers 500
            /\ last' = Response("approve", "InternalError")
            /\ UNCHANGED <<tables, timers, transitions, time>>
       ELSE /\ transfer_approvals' = Append(transfer_approvals,
                   [transfer_id |-> h.transferId, approver_user_id |-> h.approver_user_id])
            /\ IF newApprovalCount >= h.required_approvals
               THEN /\ transaction_records' =
                          [transaction_records EXCEPT
                              ![k].current_approvals = newApprovalCount,
                              ![k].status = "processing",
                              ![k].approval_status = "approved"]
                    /\ timers' = [timers EXCEPT ![k] = @ + 1]
                    /\ transitions' = [transitions EXCEPT ![k] = @ + 1]
               ELSE /\ transaction_records' =
                          [transaction_records EXCEPT ![k].current_approvals = newApprovalCount]
                    /\ UNCHANGED <<timers, transitions>>
            /\ last' = Response("approve", "Approved")
            /\ UNCHANGED <<bank_users, roles, approval_rules, time>>

\* ------------------------------------------------------------ setTimeout callback
\* The timer callback writing a status other than completed
Settle_failed(t) ==
    /\ timers[t] > 0
    /\ timers' = [timers EXCEPT ![t] = @ - 1]
    /\ transaction_records' = [transaction_records EXCEPT ![t].status = "failed"]
    /\ UNCHANGED <<bank_users, roles, approval_rules, transfer_approvals,
                   inflight, transitions, last, time>>

Settle(t) ==
    /\ timers[t] > 0
    /\ timers' = [timers EXCEPT ![t] = @ - 1]
    /\ transaction_records' = [transaction_records EXCEPT ![t].status = "completed"]
    /\ UNCHANGED <<bank_users, roles, approval_rules, transfer_approvals,
                   inflight, transitions, last, time>>

\* ------------------------------------------------------------ specification
DoInitiate == \E b \in Banks, u \in Initiators, a \in Amounts : Initiate(b, u, a)
DoApproveBegin == \E b \in Banks, t \in TransferIds, u \in UserIds : ApproveBegin(b, t, u)
DoApproveFinish == \E h \in BagToSet(inflight) : ApproveFinish(h)
DoSettle == \E t \in 1..MaxTransfers : Settle(t)

Next == DoInitiate \/ DoApproveBegin \/ DoApproveFinish \/ DoSettle

Spec == Init /\ [][Next]_vars

\* The settlement callback scheduled by setTimeout is eventually run
FairSpec == Spec /\ \A t \in 1..MaxTransfers : WF_vars(Settle(t))

\* ------------------------------------------------------------ properties
Transfers == 1..Len(transaction_records)

\* the ledger rows that reference transfer t
ApprovalsOf(t) ==
    { i \in 1..Len(transfer_approvals) : IntegerAffinity(transfer_approvals[i].transfer_id) = t }

ApproversOf(t) == { transfer_approvals[i].approver_user_id : i \in ApprovalsOf(t) }

\* C1: every transfer has current_approvals <= required_approvals, also when
\* an approve arrives while the transfer is in status processing.
C1_ApprovalsWithinRequired ==
    \A t \in Transfers :
        transaction_records[t].current_approvals <= transaction_records[t].required_approvals

\* C2: the ledger holds at most one record per (transfer_id, approver_user_id).
C2_OneRecordPerPair ==
    \A i, j \in 1..Len(transfer_approvals) :
        (/\ transfer_approvals[i].transfer_id = transfer_approvals[j].transfer_id
         /\ transfer_approvals[i].approver_user_id = transfer_approvals[j].approver_user_id)
        => i = j

\* C3: once N approve calls by N distinct approvers on a transfer requiring
\* exactly N approvals have all returned, current_approvals = N and exactly one
\* threshold transition was performed.
C3_NConcurrentApprovals ==
    \A t \in Transfers :
        LET N == transaction_records[t].required_approvals IN
        (/\ inflight = EmptyBag
         /\ N >= 1
         /\ Cardinality(ApprovalsOf(t)) = N
         /\ Cardinality(ApproversOf(t)) = N)
        => /\ transaction_records[t].current_approvals = N
           /\ transitions[t] = 1

\* C4: the threshold transition (status=processing, approval_status=approved,
\* one settlement task) is performed at most once per transfer.
C4_TransitionOnce ==
    \A t \in 1..MaxTransfers : transitions[t] <= 1

\* C5: current_approvals never decreases, and a step that records an approval
\* for a transfer raises the stored current_approvals by exactly 1.
C5_CounterMonotoneByOne ==
    [][\A t \in Transfers :
          /\ transaction_records'[t].current_approvals >= transaction_records[t].current_approvals
          /\ Cardinality(ApprovalsOf(t)') > Cardinality(ApprovalsOf(t))
                => transaction_records'[t].current_approvals
                       = transaction_records[t].current_approvals + 1]_vars

C7_ProcessingLeadsToCompleted ==
    \A t \in 1..MaxTransfers :
        (t \in Transfers /\ transaction_records[t].status = "processing")
            ~> (t \in Transfers /\ transaction_records[t].status = "completed")

C7_Witness ==
    \E t \in Transfers :
        /\ transaction_records[t].status = "completed"
        /\ transaction_records[t].approval_status = "approved"
        /\ transitions[t] = 1

\* the approver is an active user of the authenticated bank
ActiveUserOf(u, b) ==
    /\ u \in DOMAIN bank_users
    /\ bank_users[u].bank_id = b
    /\ bank_users[u].status = "active"

\* the approve handlers suspended at their await that act on transfer t
InflightOn(t) ==
    { h \in BagToSet(inflight) : IntegerAffinity(numericId(h.transferId)) = t }

\* C8 as stated: in every reachable state an approve call by an active user of
\* the bank on an auto_approved transfer answers NoApprovalNeeded, whether the
\* transfer is processing or completed; no approval is recorded for it and
\* its counter stays 0.
C8_AutoApprovedAlwaysNoApprovalNeeded ==
    \A t \in Transfers :
        transaction_records[t].approval_status = "auto_approved"
        => /\ \A b \in Banks, sp \in IdSpellings, u \in UserIds :
                ActiveUserOf(u, b)
                    => approveChecks(b, [sp |-> sp, n |-> t], u) = "NoApprovalNeeded"
           /\ ApprovalsOf(t) = {}
           /\ transaction_records[t].current_approvals = 0

\* C8 amended: in every reachable state an approve call on an auto_approved
\* transfer answers InvalidApprover when the approver is no active user of the
\* bank, otherwise AlreadyCompleted when the transfer is completed and
\* NoApprovalNeeded when it is not; no call on it gets past the checks, no
\* approval is recorded for it and its counter stays 0; no step changes its
\* required_approvals or its approval_status.
C8_AutoApprovedRejected ==
    /\ [](\A t \in Transfers :
            transaction_records[t].approval_status = "auto_approved"
            => /\ \A b \in Banks, sp \in IdSpellings, u \in UserIds :
                    approveChecks(b, [sp |-> sp, n |-> t], u) =
                        IF ~ActiveUserOf(u, b) THEN "InvalidApprover"
                        ELSE IF transaction_records[t].status = "completed" THEN "AlreadyCompleted"
                        ELSE "NoApprovalNeeded"
               /\ InflightOn(t) = {}
               /\ ApprovalsOf(t) = {}
               /\ transaction_records[t].current_approvals = 0)
    /\ [][\A t \in Transfers :
            transaction_records[t].approval_status = "auto_approved"
            => /\ transaction_records'[t].approval_status = "auto_approved"
               /\ transaction_records'[t].required_approvals
                     = transaction_records[t].required_approvals]_vars

C8_Witness ==
    /\ last = Response("approve", "AlreadyCompleted")
    /\ \A t \in Transfers :
          /\ transaction_records[t].approval_status = "auto_approved"
          /\ transaction_records[t].status = "completed"
    /\ Transfers # {}

\* The preconditions of approve in the order the interface gives them; each
\* is TRUE when it fails.  Those after the second speak of the transfer and
\* are only evaluated when it exists.
ApprovePreconditions(b, id, u) ==
    << <<~ActiveUserOf(u, b), "InvalidApprover">>,
       <<id.n \notin Transfers, "TransferNotFound">>,
       <<id.n \in Transfers /\ transaction_records[id.n].status = "completed", "AlreadyCompleted">>,
       <<id.n \in Transfers /\ transaction_records[id.n].approval_status = "auto_approved",
         "NoApprovalNeeded">>,
       <<\E i \in 1..Len(transfer_approvals) :
             transfer_approvals[i] = [transfer_id |-> id, approver_user_id |-> u],
         "DuplicateApproval">> >>

FirstFailure(pre) ==
    LET failing == { i \in 1..Len(pre) : pre[i][1] } IN
    IF failing = {} THEN "Suspended"
    ELSE pre[CHOOSE i \in failing : \A j \in failing : i <= j][2]

ApproveErrors ==
    {"InvalidApprover", "TransferNotFound", "AlreadyCompleted", "NoApprovalNeeded",
     "DuplicateApproval", "InsufficientRoleLevel"}

\* A step in which an approve handler answers: the last event becomes an
\* approve response, and either a suspended handler is gone or the event is new.
ApproveAnswers ==
    /\ last'.op = "approve"
    /\ last'.kind # "Suspended"
    /\ (inflight' # inflight \/ last' # last)

\* C10: an approve call that answers with one of the six errors leaves the
\* tables, the scheduled settlement tasks and the transition counts unchanged.
C10_ErrorsChangeNothing ==
    [][(ApproveAnswers /\ last'.kind \in ApproveErrors)
          => UNCHANGED <<tables, timers, transitions>>]_vars

C10_Witness ==
    /\ last = Response("approve", "InsufficientRoleLevel")
    /\ transfer_approvals = << >>
    /\ \E t \in Transfers : transaction_records[t].status = "pending_approval"

\* ------------------------------------------------------------ GET /:transferId/status
\* Math.round((current_approvals / required_approvals) * 100) || 0:
\* 0/0 is NaN and gives 0; n/0 with n > 0 is Infinity and stays Infinity.
percentage(current, required) ==
    IF required = 0
    THEN IF current = 0 THEN [finite |-> TRUE, value |-> 0] ELSE [finite |-> FALSE, value |-> 0]
    ELSE [finite |-> TRUE, value |-> (200 * current + required) \div (2 * required)]

\* The response of the status handler computed on given tables.  The transfer
\* is looked up by the number in the id, the approvals by the id as it was sent;
\* the authenticated bank takes no part in either query.
getStatusIn(records, approvals, bank, transferId) ==
    LET k == IntegerAffinity(numericId(transferId)) IN
    IF k \notin DOMAIN records THEN [kind |-> "TransferNotFound"]
    ELSE LET transfer == records[k] IN
         [kind |-> "Found",
          transfer_id |-> k,
          status |-> transfer.status,
          amount |-> transfer.amount,
          initiated_by |-> transfer.initiated_by,
          approval_status |-> transfer.approval_status,
          current_approvals |-> transfer.current_approvals,
          required_approvals |-> transfer.required_approvals,
          approvals |-> SelectSeq(approvals, LAMBDA ta : ta.transfer_id = transferId),
          progress |-> [approved |-> transfer.current_approvals,
                        required |-> transfer.required_approvals,
                        percentage |-> percentage(transfer.current_approvals,
                                                  transfer.required_approvals)]]

getStatus(bank, transferId) ==
    getStatusIn(transaction_records, transfer_approvals, bank, transferId)

\* ------------------------------------------------------------ tenants
\* the bank a transfer belongs to: the bank of the user who initiated it
BankOfTransfer(t) == bank_users[transaction_records[t].initiated_by].bank_id

\* C11: every recorded approval was given by a user of the bank the transfer
\* belongs to, so an approve made with bank B's key and bank B's users never
\* adds an approval to a transfer initiated by a user of another bank.
C11_ApprovalsWithinTenant ==
    \A i \in 1..Len(transfer_approvals) :
        LET t == IntegerAffinity(transfer_approvals[i].transfer_id) IN
        bank_users[transfer_approvals[i].approver_user_id].bank_id = BankOfTransfer(t)

\* the transfers of bank b, and the approvals recorded for them
OwnRecords(b) ==
    [t \in { k \in Transfers : BankOfTransfer(k) = b } |-> transaction_records[t]]

OwnApprovals(b) ==
    SelectSeq(transfer_approvals,
              LAMBDA ta : LET t == IntegerAffinity(ta.transfer_id) IN
                          t \in Transfers /\ BankOfTransfer(t) = b)

\* C12: the response of getStatus to bank B is the response computed from bank
\* B's transfers and approvals alone: it is the same in any two states that
\* agree on them, and a transfer of another bank is reported as not found.
C12_StatusIndependentOfOtherTenants ==
    \A b \in Banks, id \in TransferIds :
        getStatus(b, id) = getStatusIn(OwnRecords(b), OwnApprovals(b), b, id)

\* C15: a step that creates a transfer creates exactly one, leaves the others
\* as they were, and gives the new one fields that are a function of a rule
\* resolved for the initiator's bank and the amount: auto_approved, processing
\* and required_approvals 0 under an auto_approve rule, pending_approval twice
\* and the rule's required_approvals otherwise; current_approvals is 0.
C15_InitialFieldsFromRule ==
    [][Len(transaction_records') # Len(transaction_records) =>
          /\ Len(transaction_records') = Len(transaction_records) + 1
          /\ \A t \in Transfers : transaction_records'[t] = transaction_records[t]
          /\ LET row == transaction_records'[Len(transaction_records')] IN
             \E rule \in getApprovalRequirements(bank_users[row.initiated_by].bank_id,
                                                 row.amount) :
                row = [amount |-> row.amount,
                       initiated_by |-> row.initiated_by,
                       approval_status |-> IF rule.auto_approve THEN "auto_approved"
                                           ELSE "pending_approval",
                       status |-> IF rule.auto_approve THEN "processing"
                                  ELSE "pending_approval",
                       required_approvals |-> IF rule.auto_approve THEN 0
                                              ELSE rule.required_approvals,
                       current_approvals |-> 0]]_vars

\* ------------------------------------------------------------ a registered bank
\* Bank 2 after registration and /users/create: its own Operator and Admin;
\* u1 is a user of bank 1, u2 and u4 are ids of no user.
RegisteredUsers ==
    [u \in {"u1", "u3", "u5"} |->
        CASE u = "u1" -> [bank_id |-> 1, role |-> "Admin",    status |-> "active"]
          [] u = "u3" -> [bank_id |-> 2, role |-> "Operator", status |-> "active"]
          [] u = "u5" -> [bank_id |-> 2, role |-> "Admin",    status |-> "active"]]

\* can_approve_transfers of the four roles
can_approve_transfers ==
    [Viewer |-> FALSE, Operator |-> FALSE, Manager |-> TRUE, Admin |-> TRUE]

RegisteredInit ==
    /\ bank_users = RegisteredUsers
    /\ roles = SampleRoles
    /\ approval_rules = SampleRules \cup defaultRules
    /\ transaction_records = << >>
    /\ transfer_approvals = << >>
    /\ timers = [t \in 1..MaxTransfers |-> 0]
    /\ inflight = EmptyBag
    /\ transitions = [t \in 1..MaxTransfers |-> 0]
    /\ last = Response("none", "none")
    /\ now = 0
    /\ approval_deadline = << >>

\* transfer ids sent as the bare number
PlainIds == { id \in TransferIds : id.sp = "plain" }

\* ------------------------------------------------------------ approval rules: create, update, delete
MaxRuleOps == 1

InitialRuleIds == { r.id : r \in SampleRules \cup defaultRules }

\* Request bodies of /approval-rules/create; auto_approve is sent as the number 1.
\* The first shares its min_amount with the bank's Medium rule, the second
\* lies under all the bank's rules, the level of the third is the level of no role.
NewRules ==
    { [min_amount |-> 1000000, max_amount |-> NullAmount, required_role_level |-> 10,
       required_approvals |-> 0, auto_approve |-> TRUE],
      [min_amount |-> 0, max_amount |-> NullAmount, required_role_level |-> 1,
       required_approvals |-> 1, auto_approve |-> TRUE],
      [min_amount |-> 0, max_amount |-> NullAmount, required_role_level |-> 2,
       required_approvals |-> 1, auto_approve |-> TRUE] }

\* Request bodies of /approval-rules/:ruleId/update: the fields that are sent
\* with a value; a field left null keeps its value (COALESCE).
RulePatches ==
    { [required_approvals |-> 0], [required_approvals |-> 2] }

RuleIds == {5}

\* id INTEGER PRIMARY KEY AUTOINCREMENT; no rule that was created is deleted
\* here, so the next id is one above the largest
NextRuleId ==
    LET ids == { r.id : r \in approval_rules } \cup InitialRuleIds IN
    1 + CHOOSE i \in ids : \A j \in ids : j <= i

CreateRule(bank, body) ==
    /\ Cardinality({ r \in approval_rules : r.id \notin InitialRuleIds }) < MaxRuleOps
    /\ IF \A r \in roles : ~(r.bank_id = bank /\ r.role_level = body.required_role_level)
       THEN /\ last' = Response("createRule", "InvalidRoleLevel")
            /\ UNCHANGED <<tables, timers, inflight, transitions, time>>
       ELSE /\ approval_rules' = approval_rules \cup
                   { [id |-> NextRuleId, bank_id |-> bank,
                      min_amount |-> body.min_amount, max_amount |-> body.max_amount,
                      required_role_level |-> body.required_role_level,
                      required_approvals |-> body.required_approvals,
                      auto_approve |-> body.auto_approve] }
            /\ last' = Response("createRule", "Created")
            /\ UNCHANGED <<bank_users, roles, transaction_records, transfer_approvals,
                           timers, inflight, transitions, time>>

\* COALESCE(?, column)
Coalesce(patch, field, old) == IF field \in DOMAIN patch THEN patch[field] ELSE old

UpdateRule(bank, ruleId, patch) ==
    LET existingRule == { r \in approval_rules : r.id = ruleId /\ r.bank_id = bank } IN
    IF existingRule = {}
    THEN /\ last' = Response("updateRule", "RuleNotFound")
         /\ UNCHANGED <<tables, timers, inflight, transitions, time>>
    ELSE /\ approval_rules' = (approval_rules \ existingRule) \cup
                { [id |-> r.id, bank_id |-> r.bank_id,
                   min_amount |-> Coalesce(patch, "min_amount", r.min_amount),
                   max_amount |-> Coalesce(patch, "max_amount", r.max_amount),
                   required_role_level |->
                       Coalesce(patch, "required_role_level", r.required_role_level),
                   required_approvals |->
                       Coalesce(patch, "required_approvals", r.required_approvals),
                   auto_approve |-> Coalesce(patch, "auto_approve", r.auto_approve)]
                  : r \in existingRule }
         /\ last' = Response("updateRule", "Updated")
         /\ UNCHANGED <<bank_users, roles, transaction_records, transfer_approvals,
                        timers, inflight, transitions, time>>

DeleteRule(bank, ruleId) ==
    LET deleted == { r \in approval_rules : r.id = ruleId /\ r.bank_id = bank } IN
    /\ approval_rules' = approval_rules \ deleted
    /\ last' = Response("deleteRule", IF deleted = {} THEN "RuleNotFound" ELSE "Deleted")
    /\ UNCHANGED <<bank_users, roles, transaction_records, transfer_approvals,
                   timers, inflight, transitions, time>>

\* The rules of bank 2 change while its users initiate and approve transfers
RuleAmounts == {1000000}

RuleInitiate == \E a \in RuleAmounts : Initiate(2, "u3", a)
RuleApproveBegin == \E id \in PlainIds : ApproveBegin(2, id, "u5")
DoCreateRule == \E body \in NewRules : CreateRule(2, body)
DoUpdateRule == \E ruleId \in RuleIds, patch \in RulePatches : UpdateRule(2, ruleId, patch)
DoDeleteRule == \E ruleId \in RuleIds : DeleteRule(2, ruleId)

RuleNext ==
    \/ RuleInitiate \/ RuleApproveBegin \/ DoApproveFinish \/ DoSettle
    \/ DoCreateRule \/ DoUpdateRule \/ DoDeleteRule

RuleSpec == RegisteredInit /\ [][RuleNext]_vars

\* amounts on and around the bounds of the rules
ResolveAmounts == {0, 1, 999999, 1000000, 1000001, 4999999, 5000000, 25000000}

C14_ResolveDeterministic ==
    \A b \in Banks, a \in ResolveAmounts :
        Cardinality(getApprovalRequirements(b, a)) = 1

\* C16: every rule resolved with auto_approve false has required_approvals >= 1,
\* and every transfer in status pending_approval has required_approvals >= 1.
C16_NonAutoRequiresApproval ==
    /\ \A b \in Banks, a \in ResolveAmounts :
          \A r \in getApprovalRequirements(b, a) :
              ~r.auto_approve => r.required_approvals >= 1
    /\ \A t \in Transfers :
          transaction_records[t].status = "pending_approval"
              => transaction_records[t].required_approvals >= 1

\* C18: a step that creates, updates or deletes an approval rule leaves every
\* transfer, the ledger and the settlement tasks unchanged; no step changes the
\* required_approvals of a transfer; and a step that records an approval
\* performs the threshold transition exactly when the count it writes reaches
\* the required_approvals stored with the transfer.
C18_RequiredApprovalsFixed ==
    [][/\ approval_rules' # approval_rules
            => UNCHANGED <<transaction_records, transfer_approvals, timers, transitions>>
       /\ \A t \in Transfers :
            /\ transaction_records'[t].required_approvals
                  = transaction_records[t].required_approvals
            /\ Cardinality(ApprovalsOf(t)') > Cardinality(ApprovalsOf(t))
                  => (transitions'[t] = transitions[t] + 1
                        <=> transaction_records'[t].current_approvals
                               >= transaction_records[t].required_approvals)]_vars

\* an approval has just completed a transfer whose stored required_approvals
\* is 1 while the only rule that matches its amount now asks for 2
C18_Witness ==
    /\ last = Response("approve", "Approved")
    /\ \E t \in Transfers :
          /\ transaction_records[t].required_approvals = 1
          /\ transaction_records[t].current_approvals = 1
          /\ transaction_records[t].approval_status = "approved"
          /\ transitions[t] = 1
          /\ \A r \in getApprovalRequirements(2, transaction_records[t].amount) :
                r.required_approvals = 2

\* ------------------------------------------------------------ users: update, deactivate
\* Request bodies of /users/:userId/update: the fields sent with a value
UserPatches == { [status |-> "active"], [status |-> "suspended"] }

UpdateUser(bank, userId, patch) ==
    IF UserOfBank(userId, bank) = NoRow
    THEN /\ last' = Response("updateUser", "UserNotFound")
         /\ UNCHANGED <<tables, timers, inflight, transitions, time>>
    ELSE /\ bank_users' =
              [bank_users EXCEPT
                  ![userId].role = Coalesce(patch, "role", @),
                  ![userId].status = Coalesce(patch, "status", @)]
         /\ last' = Response("updateUser", "Updated")
         /\ UNCHANGED <<roles, approval_rules, transaction_records, transfer_approvals,
                        timers, inflight, transitions, time>>

\* UPDATE bank_users SET status = 'inactive' WHERE user_id = ? AND bank_id = ?
\* Deactivate withdrawing the approvals the user has recorded
Deactivate_withdrawApprovals(bank, userId) ==
    IF UserOfBank(userId, bank) = NoRow
    THEN /\ last' = Response("deactivate", "UserNotFound")
         /\ UNCHANGED <<tables, timers, inflight, transitions, time>>
    ELSE /\ bank_users' = [bank_users EXCEPT ![userId].status = "inactive"]
         /\ transfer_approvals' =
                SelectSeq(transfer_approvals, LAMBDA ta : ta.approver_user_id # userId)
         /\ last' = Response("deactivate", "Deactivated")
         /\ UNCHANGED <<roles, approval_rules, transaction_records,
                        timers, inflight, transitions, time>>

Deactivate(bank, userId) ==
    IF UserOfBank(userId, bank) = NoRow
    THEN /\ last' = Response("deactivate", "UserNotFound")
         /\ UNCHANGED <<tables, timers, inflight, transitions, time>>
    ELSE /\ bank_users' = [bank_users EXCEPT ![userId].status = "inactive"]
         /\ last' = Response("deactivate", "Deactivated")
         /\ UNCHANGED <<roles, approval_rules, transaction_records, transfer_approvals,
                        timers, inflight, transitions, time>>

\* The users of bank 2 are updated and deactivated while transfers are
\* initiated and approved with bank 2's key; u1 belongs to bank 1, u2 to none.
UserAmounts == {2500000, 30000000}

UserInitiate == \E u \in {"u1", "u2", "u3"}, a \in UserAmounts : Initiate(2, u, a)
UserApproveBegin == \E id \in PlainIds, u \in {"u3", "u5"} : ApproveBegin(2, id, u)
DoUpdateUser == \E u \in {"u1", "u3"}, patch \in UserPatches : UpdateUser(2, u, patch)
DoDeactivate == \E u \in {"u1", "u3"} : Deactivate(2, u)

UserNext ==
    \/ UserInitiate \/ UserApproveBegin \/ DoApproveFinish \/ DoSettle
    \/ DoUpdateUser \/ DoDeactivate

UserSpec == RegisteredInit /\ [][UserNext]_vars

\* C17: a step creates a transfer only for an initiator who is, before the
\* step, a user of the authenticated bank with status active; an initiate that
\* answers UnauthorizedInitiator changes no table and schedules nothing.  So
\* an unknown id, a user of another bank and a user who is not active (after
\* deactivate, until an update sets the status to active) create no transfer.
C17_OnlyActiveUsersInitiate ==
    [][/\ Len(transaction_records') # Len(transaction_records)
            => /\ ActiveUserOf(transaction_records'[Len(transaction_records')].initiated_by, 2)
               /\ last' = Response("initiate", "Created")
       /\ (last' = Response("initiate", "UnauthorizedInitiator") /\ last' # last)
            => UNCHANGED <<tables, timers, inflight, transitions>>
       /\ (last' = Response("initiate", "Created") /\ last' # last)
            => Len(transaction_records') = Len(transaction_records) + 1]_vars

\* an initiate has just been refused while u3, deactivated, is not active:
\* whoever was named as initiator (u1 of bank 1, the unknown u2 or u3) is no
\* active user of bank 2, and no transfer exists
C17_Witness ==
    /\ last = Response("initiate", "UnauthorizedInitiator")
    /\ bank_users["u3"].status = "inactive"
    /\ transaction_records = << >>

\* the role of the user who gave the approval in ledger row i
ApproverRole(i) == bank_users[transfer_approvals[i].approver_user_id].role

\* C19: with the default roles and the default rules of a registered bank, a
\* recorded approval of a transfer of 10,000 to 249,999.99 was given by a
\* Manager or an Admin, and one of a transfer of 250,000 or more by an Admin.
C19_DefaultRulesRoleNeeded ==
    \A i \in 1..Len(transfer_approvals) :
        LET a == transaction_records[IntegerAffinity(transfer_approvals[i].transfer_id)].amount IN
        /\ (1000000 <= a /\ a <= 24999999) => ApproverRole(i) \in {"Manager", "Admin"}
        /\ 25000000 <= a => ApproverRole(i) = "Admin"

\* C20: every recorded approval was given by a user whose role has
\* can_approve_transfers.
C20_ApproverCanApprove ==
    \A i \in 1..Len(transfer_approvals) : can_approve_transfers[ApproverRole(i)]

\* ------------------------------------------------------------ role limits
\* max_transfer_amount of the four roles, in cents
max_transfer_amount ==
    [Viewer |-> 0, Operator |-> 10000000, Manager |-> 50000000, Admin |-> 100000000]

\* C21: a step creates a transfer only when its amount is at most the
\* max_transfer_amount of the role the initiator has before the step.
C21_AmountWithinRoleLimit ==
    [][Len(transaction_records') # Len(transaction_records) =>
          LET row == transaction_records'[Len(transaction_records')] IN
          row.amount <= max_transfer_amount[bank_users[row.initiated_by].role]]_vars

\* ------------------------------------------------------------ amounts that are no whole cents
\* amount is a JSON number and the bounds of a rule are compared with it as
\* numbers.  To resolve amounts that lie between two cents the rule bounds
\* and the amounts are counted in half cents here: 1999999 is 9,999.995.
InHalfCents(rules) ==
    { [r EXCEPT !.min_amount = 2 * @,
                !.max_amount = IF @ = NullAmount THEN NullAmount ELSE 2 * @] : r \in rules }

HalfCentAmounts ==
    {2, 1999998, 1999999, 2000000, 9999998, 9999999, 10000000,
     49999998, 49999999, 50000000, 60000000}

DecimalInit ==
    /\ bank_users = RegisteredUsers
    /\ roles = SampleRoles
    /\ approval_rules = InHalfCents(defaultRules)
    /\ transaction_records = << >>
    /\ transfer_approvals = << >>
    /\ timers = [t \in 1..MaxTransfers |-> 0]
    /\ inflight = EmptyBag
    /\ transitions = [t \in 1..MaxTransfers |-> 0]
    /\ last = Response("none", "none")
    /\ now = 0
    /\ approval_deadline = << >>

DecimalInitiate == \E a \in HalfCentAmounts : Initiate(2, "u3", a)
DecimalApproveBegin == \E id \in PlainIds : ApproveBegin(2, id, "u5")

DecimalNext == DecimalInitiate \/ DecimalApproveBegin \/ DoApproveFinish \/ DoSettle

DecimalSpec == DecimalInit /\ [][DecimalNext]_vars

\* C22: with the default rules of a registered bank every amount above
\* 9,999.99 resolves to a rule that does not auto-approve and asks for at
\* least one approval, and required_approvals does not decrease as the amount
\* grows.
C22_OnlySmallAmountsAutoApproved ==
    \A a \in HalfCentAmounts :
        \A r \in getApprovalRequirements(2, a) :
            /\ a > 1999998 => (~r.auto_approve /\ r.required_approvals >= 1)
            /\ \A b \in HalfCentAmounts :
                  a <= b => \A q \in getApprovalRequirements(2, b) :
                                r.required_approvals <= q.required_approvals

\* ------------------------------------------------------------ users: create, change of role
\* POST /users/create: the role must be a role of the bank; the new user is
\* active and gets a fresh random id.
CreateUser(bank, user_id, role) ==
    /\ user_id \notin DOMAIN bank_users
    /\ IF RoleOfBank(bank, role) = NoRow
       THEN /\ last' = Response("createUser", "InvalidRole")
            /\ UNCHANGED <<tables, timers, inflight, transitions, time>>
       ELSE /\ bank_users' =
                 [u \in DOMAIN bank_users \cup {user_id} |->
                     IF u = user_id
                     THEN [bank_id |-> bank, role |-> role, status |-> "active"]
                     ELSE bank_users[u]]
            /\ last' = Response("createUser", "Created")
            /\ UNCHANGED <<roles, approval_rules, transaction_records, transfer_approvals,
                           timers, inflight, transitions, time>>

\* Request bodies of /users/:userId/update that change the role; Auditor is
\* the name of no role.
RolePatches == { [role |-> "Viewer"], [role |-> "Admin"], [role |-> "Auditor"] }

\* The roles of bank 2's users change while its transfers are approved
RoleInitiate == Initiate(2, "u3", 2500000)
RoleApproveBegin == \E id \in PlainIds : ApproveBegin(2, id, "u5")
RoleUpdateUser == \E patch \in RolePatches : UpdateUser(2, "u5", patch)
DoCreateUser == \E role \in {"Manager", "Auditor"} : CreateUser(2, "u4", role)

RoleNext ==
    \/ RoleInitiate \/ RoleApproveBegin \/ DoApproveFinish \/ DoSettle
    \/ RoleUpdateUser \/ DoCreateUser

RoleSpec == RegisteredInit /\ [][RoleNext]_vars

\* C23: the role name of every user is the name of a role of the user's bank.
C23_UserRoleExists ==
    \A u \in DOMAIN bank_users :
        \E r \in roles : r.bank_id = bank_users[u].bank_id /\ r.role_name = bank_users[u].role

\* the level of the role a suspended approve handler read for its approver
\* is below the level it resolved, or the bank has no role of that name
LevelBelowRequired(h) ==
    \A r \in roles :
        (r.bank_id = h.bank /\ r.role_name = h.role) => r.role_level < h.required_role_level

\* C29: an approve call that gets past its checks has read the role its
\* approver has at that time, whatever the role was in earlier calls, and it
\* answers InsufficientRoleLevel exactly when the level of that role is below
\* the required level: after an update of the role the next approve by the
\* user is judged with the new role.
C29_RoleReadAtApproval ==
    [][/\ \A h \in BagToSet(inflight') :
            CopiesIn(h, inflight') > CopiesIn(h, inflight)
                => h.role = bank_users[h.approver_user_id].role
       /\ \A h \in BagToSet(inflight) :
            CopiesIn(h, inflight') < CopiesIn(h, inflight)
                => (last'.kind = "InsufficientRoleLevel" <=> LevelBelowRequired(h))]_vars

\* u5, created as Admin and now Viewer, has just been refused for its level
C29_Witness ==
    /\ last = Response("approve", "InsufficientRoleLevel")
    /\ bank_users["u5"].role = "Viewer"
    /\ inflight = EmptyBag
    /\ \E t \in Transfers : transaction_records[t].status = "pending_approval"

\* ------------------------------------------------------------ rule levels
\* The required level and the required approvals of bank 2's Medium rule are
\* updated, and the role of the Operator u3 is rewritten, while u3 approves a
\* transfer of that range
LevelPatches ==
    { [required_role_level |-> 7], [required_role_level |-> 2], [required_approvals |-> 2] }

LevelInitiate == Initiate(2, "u3", 2500000)
LevelApproveBegin == \E id \in PlainIds : ApproveBegin(2, id, "u3")
LevelUpdateRule == \E patch \in LevelPatches : UpdateRule(2, 5, patch)
LevelUpdateUser == UpdateUser(2, "u3", [role |-> "Auditor"])

LevelNext ==
    \/ LevelInitiate
    \/ LevelApproveBegin
    \/ DoApproveFinish
    \/ DoSettle
    \/ LevelUpdateRule
    \/ LevelUpdateUser

LevelSpec == RegisteredInit /\ [][LevelNext]_vars

\* The rule and the stored count an approve call takes on at its checks
TakesLiveRule ==
    \A h \in BagToSet(inflight') :
        CopiesIn(h, inflight') > CopiesIn(h, inflight)
            => LET transfer == transaction_records[IntegerAffinity(numericId(h.transferId))] IN
               /\ \E rule \in getApprovalRequirements(h.bank, transfer.amount) :
                     h.required_role_level = rule.required_role_level
               /\ h.required_approvals = transfer.required_approvals

LowestRoleLevel(b) ==
    CHOOSE l \in { r.role_level : r \in { q \in roles : q.bank_id = b } } :
        \A r \in roles : r.bank_id = b => l <= r.role_level

\* C30: for every rule table reached and every amount that no rule of the bank
\* matches, resolve returns the one synthetic rule, which auto-approves, asks
\* for no approval and has as required level the lowest level among the roles
\* defined for that bank.
C30_DefaultRuleLowestLevel ==
    \A b \in Banks : \A a \in ResolveAmounts :
        (\A q \in approval_rules :
            ~(/\ q.bank_id = b
              /\ q.min_amount <= a
              /\ (q.max_amount = NullAmount \/ a <= q.max_amount)))
            => \A r \in getApprovalRequirements(b, a) :
                  /\ r.auto_approve
                  /\ r.required_approvals = 0
                  /\ r.required_role_level = LowestRoleLevel(b)

\* the Medium rule is gone and an initiate of its floor amount, which no rule
\* of bank 2 matches any more, has just been answered and auto-approved
C30_Witness ==
    /\ last = Response("initiate", "Created")
    /\ \E t \in Transfers :
          LET a == transaction_records[t].amount IN
          /\ t = Len(transaction_records)
          /\ \A q \in approval_rules :
                ~(q.bank_id = 2 /\ q.min_amount <= a
                  /\ (q.max_amount = NullAmount \/ a <= q.max_amount))
          /\ transaction_records[t].approval_status = "auto_approved"
          /\ transaction_records[t].required_approvals = 0

\* ------------------------------------------------------------ counter and ledger
\* C27: in every reachable state the current_approvals of each transfer is the
\* number of approval rows recorded for it.
C27_CounterEqualsLedger ==
    \A t \in Transfers :
        transaction_records[t].current_approvals = Cardinality(ApprovalsOf(t))

\* ------------------------------------------------------------ HTTP status
\* The HTTP status the approve handler sends with each of its answers; a
\* suspended call has sent none yet
approveStatus(kind) ==
    CASE kind = "InvalidApprover"       -> 403
      [] kind = "TransferNotFound"      -> 404
      [] kind = "AlreadyCompleted"      -> 400
      [] kind = "NoApprovalNeeded"      -> 400
      [] kind = "DuplicateApproval"     -> 400
      [] kind = "InsufficientRoleLevel" -> 403
      [] kind = "InternalError"         -> 500
      [] kind = "Approved"              -> 200
      [] OTHER                          -> 0

\* C25: every answer of approve carries the status of its failure kind: 403
\* for an approver that is no active user of the bank and for an insufficient
\* role level, 404 for a missing transfer, 409 for a duplicate approval.
C25_ApproveStatusCodes ==
    last.op = "approve" =>
        /\ last.kind \in {"InvalidApprover", "InsufficientRoleLevel"}
              => approveStatus(last.kind) = 403
        /\ last.kind = "TransferNotFound" => approveStatus(last.kind) = 404
        /\ last.kind = "DuplicateApproval" => approveStatus(last.kind) = 409

\* ------------------------------------------------------------ API keys
\* The banks table: the sample bank, a registered bank, and a registered bank
\* whose status column was set to something other than 'active'
banks ==
    { [id |-> 1, bank_name |-> "Nexora Bank", api_key |-> "nexora_api_key_123",
       status |-> "active"],
      [id |-> 2, bank_name |-> "Second Bank", api_key |-> "sk_2", status |-> "active"],
      [id |-> 3, bank_name |-> "Third Bank", api_key |-> "sk_3", status |-> "suspended"] }

\* A header that was not sent, and a header value: the text, with or without
\* a leading 'Bearer '
NoHeader == [undefined |-> TRUE]
Header(bearer, text) == [bearer |-> bearer, text |-> text]

Requests ==
    { [x_api_key |-> NoHeader, authorization |-> NoHeader],
      [x_api_key |-> Header(FALSE, "nexora_api_key_123"), authorization |-> NoHeader],
      [x_api_key |-> Header(FALSE, ""), authorization |-> Header(TRUE, "sk_2")],
      [x_api_key |-> Header(FALSE, "sk_0"), authorization |-> Header(TRUE, "sk_2")],
      [x_api_key |-> Header(FALSE, "sk_3"), authorization |-> NoHeader] }

\* JavaScript truthiness of a header value: sent and not the empty string
truthy(v) == v # NoHeader /\ (v.bearer \/ v.text # "")

\* req.headers['x-api-key'] || req.headers['authorization']?.replace('Bearer ', '')
apiKey(headers) ==
    IF truthy(headers.x_api_key) THEN headers.x_api_key
    ELSE IF headers.authorization = NoHeader THEN NoHeader
    ELSE Header(FALSE, headers.authorization.text)

\* authenticateBank looking the key up whatever the status of the bank
authenticateBank_noStatus(headers) ==
    LET key == apiKey(headers) IN
    IF ~truthy(key)
    THEN [rejected |-> TRUE, status |-> 401, error |-> "API key required"]
    ELSE LET found == { b \in banks : ~key.bearer /\ b.api_key = key.text } IN
         IF found = {}
         THEN [rejected |-> TRUE, status |-> 401, error |-> "Invalid API key"]
         ELSE [rejected |-> FALSE, bank |-> CHOOSE b \in found : TRUE]

\* The middleware in front of every transfer route
authenticateBank(headers) ==
    LET key == apiKey(headers) IN
    IF ~truthy(key)
    THEN [rejected |-> TRUE, status |-> 401, error |-> "API key required"]
    ELSE LET found == { b \in banks :
                          ~key.bearer /\ b.api_key = key.text /\ b.status = "active" } IN
         IF found = {}
         THEN [rejected |-> TRUE, status |-> 401, error |-> "Invalid API key"]
         ELSE [rejected |-> FALSE, bank |-> CHOOSE b \in found : TRUE]

\* The 401 of the middleware: the handler of the route is not called
Unauthorized(op, headers) ==
    /\ last' = [op |-> op, kind |-> "Unauthorized",
                status |-> authenticateBank(headers).status,
                error |-> authenticateBank(headers).error]
    /\ UNCHANGED <<tables, timers, inflight, transitions, time>>

\* listPending with the initiator of any bank
listPending_noBankFilter(bankId) ==
    { [id |-> t,
       amount |-> transaction_records[t].amount,
       status |-> transaction_records[t].status,
       approval_status |-> transaction_records[t].approval_status,
       current_approvals |-> transaction_records[t].current_approvals,
       required_approvals |-> transaction_records[t].required_approvals] :
         t \in { k \in DOMAIN transaction_records :
                   /\ transaction_records[k].status \in {"pending_approval", "processing"}
                   /\ transaction_records[k].initiated_by \in DOMAIN bank_users } }

\* The rows of the pending query, as the handler maps them
listPending(bankId) ==
    { [id |-> t,
       amount |-> transaction_records[t].amount,
       status |-> transaction_records[t].status,
       approval_status |-> transaction_records[t].approval_status,
       current_approvals |-> transaction_records[t].current_approvals,
       required_approvals |-> transaction_records[t].required_approvals] :
         t \in { k \in DOMAIN transaction_records :
                   /\ transaction_records[k].status \in {"pending_approval", "processing"}
                   /\ transaction_records[k].initiated_by \in
                         { u \in DOMAIN bank_users : bank_users[u].bank_id = bankId } } }

ListPending(bank) ==
    /\ last' = [op |-> "listPending", kind |-> "Listed",
                bank_name |-> bank.bank_name,
                total_pending |-> Cardinality(listPending(bank.id)),
                transfers |-> listPending(bank.id)]
    /\ UNCHANGED <<tables, timers, inflight, transitions, time>>

GetStatus(bank, transferId) ==
    /\ last' = Response("getStatus", getStatus(bank.id, transferId).kind)
    /\ UNCHANGED <<tables, timers, inflight, transitions, time>>

ApiUsers == {"u1", "u5"}
ApiAmounts == {2500000}

\* Each route runs its handler with req.bank only when the middleware calls
\* next()
ApiInitiate(headers) ==
    IF authenticateBank(headers).rejected THEN Unauthorized("initiate", headers)
    ELSE \E u \in ApiUsers : \E a \in ApiAmounts :
            Initiate(authenticateBank(headers).bank.id, u, a)

ApiApproveBegin(headers) ==
    IF authenticateBank(headers).rejected THEN Unauthorized("approve", headers)
    ELSE \E id \in PlainIds : \E u \in ApiUsers :
            ApproveBegin(authenticateBank(headers).bank.id, id, u)

ApiGetStatus(headers) ==
    IF authenticateBank(headers).rejected THEN Unauthorized("getStatus", headers)
    ELSE \E id \in PlainIds : GetStatus(authenticateBank(headers).bank, id)

ApiListPending(headers) ==
    IF authenticateBank(headers).rejected THEN Unauthorized("listPending", headers)
    ELSE ListPending(authenticateBank(headers).bank)

ApiNext ==
    \/ \E headers \in Requests : ApiInitiate(headers)
    \/ \E headers \in Requests : ApiApproveBegin(headers)
    \/ \E headers \in Requests : ApiGetStatus(headers)
    \/ \E headers \in Requests : ApiListPending(headers)
    \/ DoApproveFinish
    \/ DoSettle

ApiSpec == Init /\ [][ApiNext]_vars

\* C24: the answer of listPending for a bank lists exactly the transfers whose
\* initiator is a user of that bank and whose status is pending_approval or
\* processing, each with the fields stored for it, and producing the answer
\* changes no table, timer or running call.
C24_PendingExactlyOwnOpen ==
    [][(last' # last /\ last'.op = "listPending" /\ last'.kind = "Listed")
          => LET bank == CHOOSE b \in banks : b.bank_name = last'.bank_name
                 open == { t \in Transfers :
                             /\ BankOfTransfer(t) = bank.id
                             /\ transaction_records[t].status # "completed"
                             /\ transaction_records[t].status # "failed" }
             IN /\ { r.id : r \in last'.transfers } = open
                /\ last'.total_pending = Cardinality(open)
                /\ \A r \in last'.transfers :
                      /\ r.status = transaction_records[r.id].status
                      /\ r.status \in {"pending_approval", "processing"}
                      /\ r.amount = transaction_records[r.id].amount
                      /\ r.current_approvals = transaction_records[r.id].current_approvals
                      /\ r.required_approvals = transaction_records[r.id].required_approvals
                /\ UNCHANGED <<tables, timers, inflight, transitions>>]_vars

\* the second bank has just been told that it has nothing pending while a
\* transfer of the first bank awaits approval
C24_Witness ==
    /\ last.op = "listPending"
    /\ last.kind = "Listed"
    /\ last.bank_name = "Second Bank"
    /\ last.transfers = {}
    /\ \E t \in Transfers :
          /\ BankOfTransfer(t) = 1
          /\ transaction_records[t].status = "pending_approval"

\* The three ways a request carries no usable key
MissingKey(headers) ==
    /\ headers.x_api_key \in {NoHeader, Header(FALSE, "")}
    /\ headers.authorization \in {NoHeader, Header(FALSE, ""), Header(TRUE, "")}

SentKey(headers) ==
    IF headers.x_api_key \in {NoHeader, Header(FALSE, "")}
    THEN Header(FALSE, headers.authorization.text)
    ELSE headers.x_api_key

UnknownKey(headers) ==
    /\ ~MissingKey(headers)
    /\ \A b \in banks : SentKey(headers) # Header(FALSE, b.api_key)

InactiveKey(headers) ==
    /\ ~MissingKey(headers)
    /\ \E b \in banks : SentKey(headers) = Header(FALSE, b.api_key) /\ b.status # "active"

\* C26: a call of initiate, approve, getStatus or listPending whose request
\* carries no key, a key of no bank, or the key of a bank that is not active
\* is answered 401 and changes no table, timer or running call.
C26_BadKeyRejected ==
    [][\A headers \in Requests :
          (MissingKey(headers) \/ UnknownKey(headers) \/ InactiveKey(headers))
             => ((\/ ApiInitiate(headers)
                  \/ ApiApproveBegin(headers)
                  \/ ApiGetStatus(headers)
                  \/ ApiListPending(headers))
                    => /\ last'.kind = "Unauthorized"
                       /\ last'.status = 401
                       /\ UNCHANGED <<tables, timers, inflight, transitions>>)]_vars

\* an approve with the key of no active bank has just been refused while a
\* transfer awaits its first approval
C26_Witness ==
    /\ last.op = "approve"
    /\ last.kind = "Unauthorized"
    /\ last.error = "Invalid API key"
    /\ transfer_approvals = << >>
    /\ inflight = EmptyBag
    /\ \E t \in Transfers : transaction_records[t].status = "pending_approval"

\* ------------------------------------------------------------ progress percentage
\* C31: in every reachable state the percentage getStatus reports for a
\* transfer is a finite integer between 0 and 100, and it is 0 when the
\* transfer requires no approval.
C31_PercentageWithinRange ==
    \A b \in Banks : \A id \in TransferIds :
        LET response == getStatus(b, id) IN
        response.kind = "Found" =>
            /\ response.progress.percentage.finite
            /\ response.progress.percentage.value \in 0..100
            /\ response.required_approvals = 0 => response.progress.percentage.value = 0

\* ------------------------------------------------------------ rule levels and roles
\* C32: in every reachable state the required_role_level of every approval
\* rule is the role_level of some role of the rule's own bank.
C32_RuleLevelIsRoleLevel ==
    \A rule \in approval_rules :
        \E r \in roles :
            r.bank_id = rule.bank_id /\ r.role_level = rule.required_role_level

\* ------------------------------------------------------------ the initiator as approver
\* C33: an approve call by the user who initiated the transfer is treated as
\* any other: when that user is an active user of the bank and the transfer
\* is neither completed nor auto-approved nor already approved by them, the
\* call gets past its checks; when their role level suffices it is answered
\* Approved, its approval row is appended, the counter becomes the count it
\* read plus one, and the transfer moves to processing as soon as that count
\* reaches required_approvals.
C33_InitiatorApprovesLikeAnyone ==
    [][/\ \A b \in Banks : \A id \in PlainIds : \A u \in UserIds :
            (/\ id.n \in Transfers
             /\ transaction_records[id.n].initiated_by = u
             /\ ActiveUserOf(u, b)
             /\ transaction_records[id.n].status # "completed"
             /\ transaction_records[id.n].approval_status # "auto_approved"
             /\ u \notin ApproversOf(id.n)
             /\ ApproveBegin(b, id, u))
                => last' = Response("approve", "Suspended")
       /\ \A h \in BagToSet(inflight) :
            LET t == IntegerAffinity(numericId(h.transferId)) IN
            (/\ CopiesIn(h, inflight') < CopiesIn(h, inflight)
             /\ h.transferId \in PlainIds
             /\ transaction_records[t].initiated_by = h.approver_user_id
             /\ ~LevelBelowRequired(h))
                => /\ last' = Response("approve", "Approved")
                   /\ transfer_approvals' = Append(transfer_approvals,
                          [transfer_id |-> h.transferId,
                           approver_user_id |-> h.approver_user_id])
                   /\ transaction_records'[t].current_approvals = h.current_approvals + 1
                   /\ h.current_approvals + 1 >= h.required_approvals
                         => transaction_records'[t].status = "processing"]_vars

\* a transfer that requires one approval is in processing with the approval
\* of its initiator alone
C33_Witness ==
    /\ last = Response("approve", "Approved")
    /\ \E t \in Transfers :
          /\ transaction_records[t].required_approvals = 1
          /\ transaction_records[t].current_approvals = 1
          /\ transaction_records[t].status = "processing"
          /\ ApproversOf(t) = {transaction_records[t].initiated_by}
          /\ Cardinality(ApprovalsOf(t)) = 1

\* ------------------------------------------------------------ approval deadline
\* Time passes: Date.now() grows between two handlers.  No handler runs.
Tick ==
    /\ now < MaxTime
    /\ now' = now + 1
    /\ last' = Response("clock", "Tick")
    /\ UNCHANGED <<tables, timers, inflight, transitions, approval_deadline>>

DeadlineUsers == {"u1", "u2"}
DeadlineAmounts == {2500000, 30000000}

DeadlineInitiate == \E a \in DeadlineAmounts : Initiate(1, "u1", a)
DeadlineApproveBegin ==
    \E id \in PlainIds : \E u \in DeadlineUsers : ApproveBegin(1, id, u)

DeadlineNext ==
    \/ DeadlineInitiate
    \/ DeadlineApproveBegin
    \/ DoApproveFinish
    \/ DoSettle
    \/ Tick

DeadlineSpec == Init /\ [][DeadlineNext]_vars

\* C34: every transfer has the approval_deadline stored at its initiation and
\* no step rewrites it; the passing of time changes no table, timer or running
\* call; a transfer leaves pending_approval only for processing and only in
\* the step of an approve call answered Approved, so that without approvals
\* it stays pending_approval and never fails; and what approve answers is
\* decided by the approver, the transfer's status, the recorded approvals and
\* the role level alone, before the deadline and after it.
C34_DeadlineNeverConsulted ==
    /\ [](Len(approval_deadline) = Len(transaction_records))
    /\ [](\A b \in Banks, id \in TransferIds, u \in UserIds :
             approveChecks(b, id, u) = FirstFailure(ApprovePreconditions(b, id, u)))
    /\ [][/\ \A t \in Transfers : approval_deadline'[t] = approval_deadline[t]
          /\ now' # now => UNCHANGED <<tables, timers, inflight, transitions>>
          /\ \A t \in Transfers :
                (/\ transaction_records[t].status = "pending_approval"
                 /\ transaction_records'[t].status # "pending_approval")
                    => /\ transaction_records'[t].status = "processing"
                       /\ last' = Response("approve", "Approved")
                       /\ Len(transfer_approvals') = Len(transfer_approvals) + 1
          /\ \A h \in BagToSet(inflight) :
                CopiesIn(h, inflight') < CopiesIn(h, inflight)
                    => (last'.kind = "InsufficientRoleLevel" <=> LevelBelowRequired(h))]_vars

\* an approve has just been answered Approved, with the clock already past the
\* deadline of the transfer it moved to processing
C34_Witness ==
    /\ last = Response("approve", "Approved")
    /\ \E t \in Transfers :
          /\ now > approval_deadline[t]
          /\ transaction_records[t].approval_status = "approved"
          /\ transaction_records[t].status = "processing"

\* ------------------------------------------------------------ approvers deactivated or demoted
\* The Operator u3 of bank 2 initiates a transfer that needs two approvals;
\* u3 and the Admin u5 approve it while u3 is deactivated or made a Viewer
FrameInitiate == Initiate(2, "u3", 30000000)
FrameApproveBegin == \E id \in PlainIds : \E u \in {"u3", "u5"} : ApproveBegin(2, id, u)
FrameDeactivate == Deactivate(2, "u3")
FrameUpdateUser == UpdateUser(2, "u3", [role |-> "Viewer"])

FrameNext ==
    \/ FrameInitiate
    \/ FrameApproveBegin
    \/ DoApproveFinish
    \/ DoSettle
    \/ FrameDeactivate
    \/ FrameUpdateUser

FrameSpec == RegisteredInit /\ [][FrameNext]_vars

\* C35: a step that changes a user (deactivation, role update) changes no
\* transfer, no approval row, no scheduled settlement and no running call; and
\* an approve answered Approved sets the counter to the count it read plus one
\* and moves the transfer to processing when that reaches required_approvals,
\* whatever the present status and role of those who approved before.
C35_UserChangesKeepApprovals ==
    [][/\ bank_users' # bank_users
            => UNCHANGED <<transaction_records, transfer_approvals, timers,
                           inflight, transitions>>
       /\ \A h \in BagToSet(inflight) :
            LET t == IntegerAffinity(numericId(h.transferId)) IN
            (CopiesIn(h, inflight') < CopiesIn(h, inflight) /\ last'.kind = "Approved")
                => /\ transaction_records'[t].current_approvals = h.current_approvals + 1
                   /\ Len(transfer_approvals') = Len(transfer_approvals) + 1
                   /\ \A i \in 1..Len(transfer_approvals) :
                         transfer_approvals'[i] = transfer_approvals[i]
                   /\ h.current_approvals + 1 >= h.required_approvals
                         => transaction_records'[t].status = "processing"]_vars

\* the transfer has reached its two approvals and is processing; one of the
\* two is u3's, recorded before u3 was deactivated
C35_Witness ==
    /\ last = Response("approve", "Approved")
    /\ bank_users["u3"].status = "inactive"
    /\ \E t \in Transfers :
          /\ transaction_records[t].required_approvals = 2
          /\ transaction_records[t].current_approvals = 2
          /\ transaction_records[t].status = "processing"
          /\ ApproversOf(t) = {"u3", "u5"}

====
